---- MODULE Spec2Model ----
(***************************************************************************)
(* FunnyPDF (src/app.py): the humor pipeline                               *)
(*   extract_text -> apply_word_fun -> ai_rewrite -> sprinkle_emojis ->    *)
(*   add_fake_citations -> render_pdf                                      *)
(* and the /process request handler that drives it.                        *)
(*                                                                         *)
(* A text is a sequence of characters.  A character is a one-character     *)
(* string; a character outside ASCII is written by its code point          *)
(* ("U+1F602").                                                            *)
(***************************************************************************)
EXTENDS Integers, Sequences, FiniteSets, TLC

VARIABLES
  text,       \* function level: the text argument of the call
  intensity,  \* function level: the intensity argument, in hundredths
  fn,         \* function level: the function that has been called ("none" before)
  ret,        \* function level: the text it returned
  cited,      \* function level: add_fake_citations' chunks, as rebuilt by its loop
  field,      \* function level: the form field cat_every as submitted
  interval,   \* function level: the cat_every the handler made of it
  environ,    \* os.environ: AI_MODE, OPENAI_API_KEY and OPENAI_MODEL
  calls,      \* the requests sent to the external rewriting service, in order
  answers,    \* what the service answered to each of them
  rng,        \* the number of outputs consumed from the seeded random source
  pc,         \* request handler: where process() stands
  req,        \* request handler: the submitted form as process() read it
  raw,        \* request handler: the text extract_text returned
  t,          \* build_pipeline's t, then the text handed to render_pdf
  pcount,     \* render_pdf: paragraphs drawn so far
  doc,        \* render_pdf: what has been drawn on the pages, in order
  fetches,    \* render_pdf: the outcome of each image fetch so far
  funny,      \* the file funny.pdf: whether written, and the document in it
  response,   \* what the handler answered
  nreq,       \* requests received so far
  runs,       \* successive build_pipeline invocations: arguments and result
  inv         \* concurrent build_pipeline invocations: each one's locals

fvars == <<text, intensity, fn, ret, cited, field, interval>>
avars == <<pc, req, raw, t, pcount, doc, fetches, funny, response, nreq>>
vars == <<fvars, environ, calls, answers, rng, avars, runs, inv>>

-----------------------------------------------------------------------------
(* Bounds of the model *)

\* longest text drawn over Alphabet
MaxLen == 3
\* longest text drawn as a sequence of Tokens
MaxTokens == 2
\* number of 32-bit outputs of the random source that are chosen freely
MaxDraws == 3
\* number of answers of the external service that are chosen freely
MaxCalls == 2
\* requests the handler serves one after the other
MaxRequests == 1
\* successive invocations of build_pipeline in one process
MaxRuns == 2
\* longest value submitted in the form field cat_every
MaxField == 3
\* invocations of build_pipeline that run at the same time
MaxThreads == 2

-----------------------------------------------------------------------------
(* Characters and strings, as Python's str and re treat them *)

Null == "None"

\* str.isspace(), which str.strip() and the pattern \s use
Whitespace ==
  {" ", "\t", "\n", "\r", "\f", "U+000B", "U+001C", "U+001D", "U+001E",
   "U+001F", "U+0085", "U+00A0", "U+2028", "U+2029"}

\* the line boundaries of str.splitlines(); "\r\n" counts as one
LineBreaks ==
  {"\n", "\r", "\f", "U+000B", "U+001C", "U+001D", "U+001E", "U+0085",
   "U+2028", "U+2029"}

UPPER ==
  <<"A", "B", "C", "D", "E", "F", "G", "H", "I", "J", "K", "L", "M",
    "N", "O", "P", "Q", "R", "S", "T", "U", "V", "W", "X", "Y", "Z">>

LOWER ==
  <<"a", "b", "c", "d", "e", "f", "g", "h", "i", "j", "k", "l", "m",
    "n", "o", "p", "q", "r", "s", "t", "u", "v", "w", "x", "y", "z">>

DIGITS == {"0", "1", "2", "3", "4", "5", "6", "7", "8", "9"}

\* re.IGNORECASE compares case-folded characters
lower(c) ==
  IF \E i \in DOMAIN UPPER : UPPER[i] = c
  THEN LOWER[CHOOSE i \in DOMAIN UPPER : UPPER[i] = c]
  ELSE c

\* the class \w, whose edges \b matches
IsWordChar(c) ==
  \/ \E i \in DOMAIN UPPER : c = UPPER[i] \/ c = LOWER[i]
  \/ c \in DIGITS
  \/ c = "_"

RECURSIVE lstrip(_)
lstrip(s) ==
  IF s # <<>> /\ Head(s) \in Whitespace THEN lstrip(Tail(s)) ELSE s

RECURSIVE rstrip(_)
rstrip(s) ==
  IF s # <<>> /\ s[Len(s)] \in Whitespace
  THEN rstrip(SubSeq(s, 1, Len(s) - 1))
  ELSE s

\* str.strip()
strip(s) == rstrip(lstrip(s))

\* s[:n]
Take(s, n) == SubSeq(s, 1, IF Len(s) < n THEN Len(s) ELSE n)

\* sep.join(parts)
RECURSIVE join(_, _)
join(sep, parts) ==
  IF parts = <<>> THEN <<>>
  ELSE IF Len(parts) = 1 THEN parts[1]
  ELSE parts[1] \o sep \o join(sep, Tail(parts))

StartsAt(s, i, sep) ==
  /\ i + Len(sep) - 1 <= Len(s)
  /\ SubSeq(s, i, i + Len(sep) - 1) = sep

\* the smallest element of a set of positions
First(S) == CHOOSE j \in S : \A x \in S : j <= x

\* str.split(sep): the pieces between the occurrences of sep, found left to
\* right without overlap; empty pieces are kept.  One step per occurrence:
\* i is where the current piece starts
RECURSIVE SplitFrom(_, _, _, _)
SplitFrom(s, sep, i, acc) ==
  LET hits == {j \in i..Len(s) : StartsAt(s, j, sep)}
  IN  IF hits = {} THEN Append(acc, SubSeq(s, i, Len(s)))
      ELSE LET j == First(hits)
           IN  SplitFrom(s, sep, j + Len(sep), Append(acc, SubSeq(s, i, j - 1)))

split(s, sep) == SplitFrom(s, sep, 1, <<>>)

\* str.splitlines(): a line ends at a line boundary; no empty last line after
\* a final boundary, and no line at all for the empty string
\* One step per line: i is where the current line starts
RECURSIVE SplitLinesFrom(_, _, _)
SplitLinesFrom(s, i, acc) ==
  LET hits == {j \in i..Len(s) : s[j] \in LineBreaks}
  IN  IF hits = {}
      THEN (IF i > Len(s) THEN acc ELSE Append(acc, SubSeq(s, i, Len(s))))
      ELSE LET j == First(hits)
           IN  SplitLinesFrom(s,
                              IF s[j] = "\r" /\ j < Len(s) /\ s[j + 1] = "\n"
                              THEN j + 2 ELSE j + 1,
                              Append(acc, SubSeq(s, i, j - 1)))

splitlines(s) == SplitLinesFrom(s, 1, <<>>)

-----------------------------------------------------------------------------
(* The random source: module random, a Mersenne Twister.  A stream ws is    *)
(* the sequence of its 32-bit outputs, each kept as its top 27 bits (no     *)
(* call of the program reads the low 5); k counts the outputs consumed.     *)

RECURSIVE Pow2(_)
Pow2(n) == IF n = 0 THEN 1 ELSE 2 * Pow2(n - 1)

\* random.seed(42): the first outputs of the generator seeded with 42
MT42 ==
  << 85822412, 14942603, 3356886, 99529223, 36913810, 32868828,
     29958838, 18728463, 98847493, 13756669, 90825067, 99410741,
     119746314, 73197857, 11668732, 79254563, 56629388, 4265799,
     3999315, 12575562, 29345092, 31227216, 67827638, 80801586,
     3561597, 75329037, 26687537, 96102525, 87226012, 94130244,
     73140807, 56306997, 29587039, 60291817, 79089901, 37338124,
     108639916, 116675514, 872248, 101845400, 108155229, 21429110,
     93702683, 56722344, 45667651, 37295260, 20868105, 28898923,
     128474963, 102474447, 45176955, 13718431, 12448136, 50992979,
     12981052, 48181396, 113748768, 46164955, 81030736, 35503389,
     108330923, 5831819, 97942942, 61662963, 71971316, 16753883,
     130609386, 123788389, 50806024, 10576383, 74093639, 39349722,
     111320809, 84374605, 83016315, 118843321, 115656342, 48537831,
     77490893, 25808537, 94566031, 9335534, 6150444, 88753260,
     30587988, 103759476, 38840994, 132234194, 10709497, 114798801,
     31244663, 116297469, 13556182, 51019678, 37308985, 60855700,
     85320121, 111952406, 48966946, 21831063, 49684848, 47683626,
     28119557, 89949389, 35833156, 94196727, 125715650, 91744214,
     86977837, 9583482, 81756179, 85225343, 22969840, 71691040,
     97861742, 32857966, 21931511, 62043515, 50929647, 36231783 >>

\* the k-th output of ws; a stream chosen up to some length repeats
Word(ws, k) == ws[((k - 1) % Len(ws)) + 1]

\* random.random(): (a * 2^26 + b) / 2^53 with a the top 27 bits of one
\* output and b the top 26 bits of the next
random(ws, k) ==
  [a |-> Word(ws, k + 1), b |-> Word(ws, k + 2) \div 2, k |-> k + 2]

\* a probability p as the integer ceil(p * 2^53), split at bit 26:
\* random() < p  iff  a * 2^26 + b < ceil(p * 2^53).
\* p is the double intensity / d for the intensities of STYLES, and 0
Cut(i, d) ==
  CASE i = 20 /\ d = 1 -> [hi |-> 26843545, lo |-> 40265319]
    [] i = 50 /\ d = 1 -> [hi |-> 67108864, lo |-> 0]
    [] i = 90 /\ d = 1 -> [hi |-> 120795955, lo |-> 13421773]
    [] i = 20 /\ d = 2 -> [hi |-> 13421772, lo |-> 53687092]
    [] i = 50 /\ d = 2 -> [hi |-> 33554432, lo |-> 0]
    [] i = 90 /\ d = 2 -> [hi |-> 60397977, lo |-> 40265319]
    [] i = 20 /\ d = 3 -> [hi |-> 8947848, lo |-> 35791395]
    [] i = 50 /\ d = 3 -> [hi |-> 22369621, lo |-> 22369622]
    [] i = 90 /\ d = 3 -> [hi |-> 40265318, lo |-> 26843546]
    [] i = 0 -> [hi |-> 0, lo |-> 0]

\* variant: the draw compared with <= in place of <
Less_Inclusive(r, p) == r.a < p.hi \/ (r.a = p.hi /\ r.b <= p.lo)

\* random.random() < p
Less(r, p) == r.a < p.hi \/ (r.a = p.hi /\ r.b < p.lo)

RECURSIVE bit_length(_)
bit_length(n) == IF n = 0 THEN 0 ELSE 1 + bit_length(n \div 2)

\* random.getrandbits(bits), bits <= 32: the top bits of one output
getrandbits(bits, ws, k) ==
  [v |-> Word(ws, k + 1) \div Pow2(27 - bits), k |-> k + 1]

\* Random._randbelow(n): draw bit_length(n) bits until the value is below n
RECURSIVE randbelow(_, _, _)
randbelow(n, ws, k) ==
  LET r == getrandbits(bit_length(n), ws, k)
  IN  IF r.v < n THEN r ELSE randbelow(n, ws, r.k)

\* random.choice(pool)
choice(pool, ws, k) ==
  LET r == randbelow(Len(pool), ws, k)
  IN  [v |-> pool[r.v + 1], k |-> r.k]

-----------------------------------------------------------------------------
(* The static tables *)

FUNNY_MAP ==
  << [pat |-> <<"o", "b", "e", "s", "e">>,
      repl |-> <<"c", "h", "o", "n", "k", "y">>],
     [pat |-> <<"o", "v", "e", "r", "w", "e", "i", "g", "h", "t">>,
      repl |-> <<"c", "h", "o", "n", "k", "y">>],
     [pat |-> <<"f", "a", "t">>,
      repl |-> <<"s", "n", "a", "c", "k", "-", "p", "o", "w", "e", "r", "e", "d">>],
     [pat |-> <<"b", "u", "l", "l", "i", "e", "d">>,
      repl |-> <<"g", "o", "t", " ", "r", "o", "a", "s", "t", "e", "d">>],
     [pat |-> <<"a", "r", "g", "u", "e">>,
      repl |-> <<"e", "n", "t", "e", "r", " ", "a", " ", "s", "p", "i", "c", "y", " ", "d", "e", "b", "a", "t", "e">>],
     [pat |-> <<"a", "n", "g", "r", "y">>,
      repl |-> <<"i", "n", "t", "e", "r", "n", "a", "l", "l", "y", " ", "s", "c", "r", "e", "a", "m", "i", "n", "g">>],
     [pat |-> <<"m", "a", "n", "a", "g", "e", "r">>,
      repl |-> <<"e", "m", "a", "i", "l", " ", "o", "v", "e", "r", "l", "o", "r", "d">>],
     [pat |-> <<"p", "r", "i", "n", "c", "i", "p", "a", "l">>,
      repl |-> <<"r", "u", "l", "e", " ", "g", "r", "a", "n", "d", "m", "a", "s", "t", "e", "r">>],
     [pat |-> <<"t", "e", "a", "c", "h", "e", "r">>,
      repl |-> <<"k", "n", "o", "w", "l", "e", "d", "g", "e", " ", "d", "i", "s", "p", "e", "n", "s", "e", "r">>],
     [pat |-> <<"b", "o", "s", "s">>,
      repl |-> <<"o", "v", "e", "r", "l", "o", "r", "d", " ", "o", "f", " ", "c", "o", "f", "f", "e", "e">>],
     [pat |-> <<"w", "o", "r", "k", "e", "d", " ", "h", "a", "r", "d">>,
      repl |-> <<"s", "w", "e", "a", "t", "e", "d", " ", "l", "i", "k", "e", " ", "a", " ", "g", "a", "m", "e", "r", " ", "o", "n", " ", "1", "%", " ", "b", "a", "t", "t", "e", "r", "y">>],
     [pat |-> <<"m", "e", "e", "t", "i", "n", "g">>,
      repl |-> <<"s", "n", "o", "o", "z", "e", " ", "s", "u", "m", "m", "i", "t">>],
     [pat |-> <<"s", "t", "u", "d", "y">>,
      repl |-> <<"l", "o", "r", "e", " ", "g", "r", "i", "n", "d">>],
     [pat |-> <<"s", "t", "u", "d", "e", "n", "t">>,
      repl |-> <<"X", "P", " ", "f", "a", "r", "m", "e", "r">>] >>

EMOJIS ==
  << "U+1F602", "U+1F63C", "U+2728", "U+1F643", "U+1FAE0", "U+1F525", "U+1F972", "U+1F9E0", "U+1FAE1", "U+1F91D", "U+1F37F", "U+1F431", "U+1F4DA", "U+2615", "U+1F300", "U+1F9C3" >>

FAKE_CITES ==
  << <<"(", "T", "o", "t", "a", "l", "l", "y", "R", "e", "a", "l", "J", "o", "u", "r", "n", "a", "l", ",", " ", "2", "0", "2", "4", ")">>,
     <<"(", "S", "e", "e", ":", " ", "F", "i", "g", "u", "r", "e", " ", "6", "9", ")">>,
     <<"(", "P", "e", "e", "r", "-", "r", "e", "v", "i", "e", "w", "e", "d", " ", "b", "y", " ", "3", " ", "c", "a", "t", "s", ")">>,
     <<"(", "S", "o", "u", "r", "c", "e", ":", " ", "T", "r", "u", "s", "t", " ", "m", "e", " ", "b", "r", "o", ")">>,
     <<"(", "A", "s", " ", "f", "o", "r", "e", "t", "o", "l", "d", " ", "b", "y", " ", "a", "n", "c", "i", "e", "n", "t", " ", "m", "e", "m", "e", "s", ")">> >>

\* intensities in hundredths
STYLES == [mild |-> 20, spicy |-> 50, chaotic |-> 90]

-----------------------------------------------------------------------------
(* apply_word_fun *)

\* pattern \bword\b under re.IGNORECASE matches text at position i
MatchAt(pat, s, i) ==
  /\ i + Len(pat) - 1 <= Len(s)
  /\ \A j \in 1..Len(pat) : lower(s[i + j - 1]) = pat[j]
  /\ i = 1 \/ ~IsWordChar(s[i - 1])
  /\ i + Len(pat) > Len(s) \/ ~IsWordChar(s[i + Len(pat)])

\* re.sub(pat, subfun, text): the matches left to right, without overlap;
\* subfun draws once per match and keeps the match unless the draw is below
\* the intensity.  One step per match: i is where the text not yet looked at
\* starts
RECURSIVE re_sub(_, _, _, _, _, _, _)
re_sub(entry, s, i, acc, p, ws, k) ==
  LET hits == {j \in i..Len(s) : MatchAt(entry.pat, s, j)}
  IN  IF hits = {} THEN [text |-> acc \o SubSeq(s, i, Len(s)), k |-> k]
      ELSE LET j == First(hits)
               r == random(ws, k)
               m == SubSeq(s, j, j + Len(entry.pat) - 1)
           IN  re_sub(entry, s, j + Len(entry.pat),
                      acc \o SubSeq(s, i, j - 1)
                          \o (IF Less(r, p) THEN entry.repl ELSE m),
                      p, ws, r.k)

\* the loop over FUNNY_MAP: each pattern works on the output of the one before
RECURSIVE WordFunFrom(_, _, _, _, _)
WordFunFrom(n, s, i, ws, k) ==
  IF n > Len(FUNNY_MAP) THEN [text |-> s, k |-> k]
  ELSE LET r == re_sub(FUNNY_MAP[n], s, 1, <<>>, Cut(i, 1), ws, k)
       IN  WordFunFrom(n + 1, r.text, i, ws, r.k)

apply_word_fun(s, i, ws, k) == WordFunFrom(1, s, i, ws, k)

-----------------------------------------------------------------------------
(* sprinkle_emojis *)

\* " ".join(random.choice(EMOJIS) for _ in range(count))
RECURSIVE Picks(_, _, _, _)
Picks(count, acc, ws, k) ==
  IF count = 0 THEN [text |-> acc, k |-> k]
  ELSE LET c == choice(EMOJIS, ws, k)
       IN  Picks(count - 1,
                 (IF acc = <<>> THEN <<>> ELSE Append(acc, " ")) \o <<c.v>>,
                 ws, c.k)

\* one line of the loop: a blank line is kept; another line draws twice
\* (both draws are always made) and gets that many emoji appended
EmojiLine(line, i, ws, k) ==
  IF strip(line) = <<>> THEN [text |-> line, k |-> k]
  ELSE LET r1 == random(ws, k)
           r2 == random(ws, r1.k)
           count == (IF Less(r1, Cut(i, 1)) THEN 1 ELSE 0)
                    + (IF Less(r2, Cut(i, 2)) THEN 1 ELSE 0)
           picks == Picks(count, <<>>, ws, r2.k)
       IN  IF count # 0
           THEN [text |-> line \o <<" ">> \o picks.text, k |-> picks.k]
           ELSE [text |-> line, k |-> r2.k]

RECURSIVE EmojiLines(_, _, _, _, _)
EmojiLines(lines, acc, i, ws, k) ==
  IF lines = <<>> THEN [lines |-> acc, k |-> k]
  ELSE LET r == EmojiLine(Head(lines), i, ws, k)
       IN  EmojiLines(Tail(lines), Append(acc, r.text), i, ws, r.k)

sprinkle_emojis(s, i, ws, k) ==
  IF i <= 0 THEN [text |-> s, k |-> k]
  ELSE LET r == EmojiLines(splitlines(s), <<>>, i, ws, k)
       IN  [text |-> join(<<"\n">>, r.lines), k |-> r.k]

-----------------------------------------------------------------------------
(* add_fake_citations *)

PUNCT == {".", "?", "!"}

\* the end of the run of whitespace that starts at i
RECURSIVE SpaceEnd(_, _)
SpaceEnd(s, i) ==
  IF i < Len(s) /\ s[i + 1] \in Whitespace THEN SpaceEnd(s, i + 1) ELSE i

\* re.split(r"(\.|\?|!)(\s+)", text): chunk, punct, space, chunk, punct,
\* space, ..., chunk.  A split point is a punctuation mark followed by at
\* least one whitespace character; the whole run of whitespace is taken.
\* One step per split point: i is where the current chunk starts
RECURSIVE ReSplitFrom(_, _, _)
ReSplitFrom(s, i, acc) ==
  LET hits == {j \in i..(Len(s) - 1) :
                 s[j] \in PUNCT /\ s[j + 1] \in Whitespace}
  IN  IF hits = {} THEN Append(acc, SubSeq(s, i, Len(s)))
      ELSE LET j == First(hits)
               e == SpaceEnd(s, j + 1)
           IN  ReSplitFrom(s, e + 1,
                           acc \o <<SubSeq(s, i, j - 1), <<s[j]>>,
                                     SubSeq(s, j + 1, e)>>)

re_split(s) == ReSplitFrom(s, 1, <<>>)

\* the loop over range(0, len(sentences), 3); a chunk that is not blank
\* draws, and gets " " and a citation appended when the draw is below
\* intensity / 3.  A part records what the loop put out for one chunk
RECURSIVE CiteFrom(_, _, _, _, _, _)
CiteFrom(sentences, n, acc, i, ws, k) ==
  IF n > Len(sentences) THEN [parts |-> acc, k |-> k]
  ELSE LET chunk == sentences[n]
           punct == IF n + 1 <= Len(sentences) THEN sentences[n + 1] ELSE <<>>
           space == IF n + 2 <= Len(sentences) THEN sentences[n + 2] ELSE <<>>
           r == random(ws, k)
           hit == strip(chunk) # <<>> /\ Less(r, Cut(i, 3))
           c == choice(FAKE_CITES, ws, r.k)
           part == [chunk |-> chunk,
                    cite |-> IF hit THEN c.v ELSE <<>>,
                    punct |-> punct, space |-> space]
       IN  CiteFrom(sentences, n + 3, Append(acc, part), i, ws,
                    IF strip(chunk) = <<>> THEN k
                    ELSE IF hit THEN c.k ELSE r.k)

\* "".join(out)
RECURSIVE JoinParts(_)
JoinParts(parts) ==
  IF parts = <<>> THEN <<>>
  ELSE LET q == Head(parts)
       IN  q.chunk \o (IF q.cite = <<>> THEN <<>> ELSE <<" ">> \o q.cite)
           \o q.punct \o q.space \o JoinParts(Tail(parts))

\* variant: the whitespace after a sentence put out as a single space
add_fake_citations_OneSpace(s, i, ws, k) ==
  IF i <= 0 THEN [text |-> s, k |-> k, parts |-> <<>>]
  ELSE LET r == CiteFrom(re_split(s), 1, <<>>, i, ws, k)
           parts == [n \in DOMAIN r.parts |->
                       [r.parts[n] EXCEPT !.space = IF @ = <<>> THEN <<>> ELSE <<" ">>]]
       IN  [text |-> JoinParts(parts), k |-> r.k, parts |-> parts]

\* the early return for intensity <= 0, then split, loop and join

add_fake_citations(s, i, ws, k) ==
  IF i <= 0 THEN [text |-> s, k |-> k, parts |-> <<>>]
  ELSE LET r == CiteFrom(re_split(s), 1, <<>>, i, ws, k)
       IN  [text |-> JoinParts(r.parts), k |-> r.k, parts |-> r.parts]

-----------------------------------------------------------------------------
(* ai_rewrite *)

\* os.getenv(key, default)
getenv(env, key, default) == IF env[key] = Null THEN default ELSE env[key]

\* the answer to the n-th request; the answers chosen repeat
Answer(resp, n) == resp[((n - 1) % Len(resp)) + 1]

\* one paragraph of the loop: the request is sent, and the paragraph is
\* replaced by the stripped answer unless the call raised (time-out, HTTP
\* error, a body that is not the expected JSON) or the answer is blank
RECURSIVE RewriteFrom(_, _, _, _, _, _, _)
RewriteFrom(paras, n, acc, style, env, resp, log) ==
  IF n > Len(paras) THEN [text |-> join(<<"\n", "\n">>, acc), calls |-> log]
  ELSE LET p == paras[n]
           seg == Take(strip(p), 1200)
           sent == [seg |-> seg, style |-> style,
                   model |-> getenv(env, "OPENAI_MODEL", "gpt-4o-mini"),
                   key |-> env["OPENAI_API_KEY"]]
           a == Answer(resp, n)
           new == IF a.status = "ok" /\ strip(a.content) # <<>>
                  THEN strip(a.content)
                  ELSE p
       IN  RewriteFrom(paras, n + 1, Append(acc, new), style, env, resp,
                       Append(log, sent))

\* text.split("\n\n") without the blank paragraphs
Paras(s) ==
  LET all == split(s, <<"\n", "\n">>)
  IN  SelectSeq(all, LAMBDA p : strip(p) # <<>>)

\* variant: no check of the credential before the requests are sent
ai_rewrite_NoKeyCheck(s, style, env, resp, log) ==
  IF getenv(env, "AI_MODE", "none") # "openai"
  THEN [text |-> s, calls |-> log]
  ELSE RewriteFrom(Paras(s), 1, <<>>, style, env, resp, log)

\* returns the text as it is unless AI_MODE is "openai" and a key is set

ai_rewrite(s, style, env, resp, log) ==
  IF getenv(env, "AI_MODE", "none") # "openai"
  THEN [text |-> s, calls |-> log]
  ELSE IF env["OPENAI_API_KEY"] \in {Null, ""}
  THEN [text |-> s, calls |-> log]
  ELSE RewriteFrom(Paras(s), 1, <<>>, style, env, resp, log)

-----------------------------------------------------------------------------
(* The form field cat_every, as process() reads it *)

DigitValue(c) == CHOOSE v \in 0..9 : c = <<"0", "1", "2", "3", "4", "5", "6", "7", "8", "9">>[v + 1]

Unsigned(s) == IF s # <<>> /\ s[1] \in {"+", "-"} THEN Tail(s) ELSE s

\* int(s) raises ValueError unless s is an optional sign and digits, with
\* single underscores between digits allowed, whitespace around all of it
\* aside
IsInt(s) ==
  LET u == Unsigned(strip(s))
  IN  /\ u # <<>>
      /\ \A n \in DOMAIN u : u[n] \in DIGITS \cup {"_"}
      /\ u[1] \in DIGITS
      /\ u[Len(u)] \in DIGITS
      /\ \A n \in 1..(Len(u) - 1) : ~(u[n] = "_" /\ u[n + 1] = "_")

RECURSIVE Digits(_, _)
Digits(u, acc) ==
  IF u = <<>> THEN acc
  ELSE IF Head(u) = "_" THEN Digits(Tail(u), acc)
  ELSE Digits(Tail(u), 10 * acc + DigitValue(Head(u)))

int(s) ==
  LET z == strip(s)
      v == Digits(Unsigned(z), 0)
  IN  IF z[1] = "-" THEN 0 - v ELSE v

\* variant: the value of the field taken as it is, without max(1, ...)
CatEvery_NoFloor(f) ==
  LET v == IF f = Null THEN <<"4">> ELSE f
  IN  IF IsInt(v) THEN int(v) ELSE 4

\* max(1, int(request.form.get("cat_every", "4"))), and 4 on ValueError
CatEvery(f) ==
  LET v == IF f = Null THEN <<"4">> ELSE f
  IN  IF IsInt(v) THEN (IF int(v) > 1 THEN int(v) ELSE 1) ELSE 4

-----------------------------------------------------------------------------
(* The inputs *)

Alphabet == {"a", " ", "\n", "."}

CharTexts == UNION {[1..n -> Alphabet] : n \in 0..MaxLen}

Tokens == {<<"f", "a", "t">>, <<"B", "o", "s", "s">>, <<" ">>, <<"\r">>}

RECURSIVE Flatten(_)
Flatten(ss) == IF ss = <<>> THEN <<>> ELSE Head(ss) \o Flatten(Tail(ss))

TokenTexts == {Flatten(ts) : ts \in UNION {[1..n -> Tokens] : n \in 0..MaxTokens}}

\* longer texts: several sentences, paragraphs and lines
Samples ==
  { <<"H", "e", "l", "l", "o", ".", "\n", "\n", "W", "o", "r", "l", "d", ".">>,
    <<"a", ".", " ", "a", "?", " ", "a">>,
    <<"f", "a", "t", " ", "c", "a", "t", ".", "\n", "B", "o", "s", "s", "!">>,
    <<"a", "\n", "\n", " ", "\n", "\n", "a">>,
    <<"a", "!", "\r", "\n", "\t", "a">> }

Texts == CharTexts \cup TokenTexts \cup Samples

\* the characters of a submitted cat_every: digits, signs, whitespace, an
\* underscore and a letter
FieldChars == {"0", "2", "-", "+", " ", "_", "x"}

\* the strings that arrive as cat_every
Fields == {<<>> \o g : g \in UNION {[1..n -> FieldChars] : n \in 0..MaxField}}

\* the values an intensity argument takes: those of STYLES, and 0
Intensities == {0} \cup {STYLES[s] : s \in DOMAIN STYLES}

\* outputs of the random source: the least, the greatest, and the one at
\* which a draw equals the intensity 0.2 in its high bits
RandWords == {0, 26843545, 134217727}

Streams == [1..MaxDraws -> RandWords]

\* what the external service answers to one request
Answers ==
  {[status |-> "error", content |-> <<>>],
   [status |-> "ok", content |-> <<>>],
   [status |-> "ok", content |-> <<" ", "z", "\n">>]}

Responses == [1..MaxCalls -> Answers]

StyleKeys == DOMAIN STYLES

Environs ==
  [AI_MODE : {Null, "none", "openai"},
   OPENAI_API_KEY : {Null, "", "sk-key"},
   OPENAI_MODEL : {Null}]

NoEnviron ==
  [AI_MODE |-> Null, OPENAI_API_KEY |-> Null, OPENAI_MODEL |-> Null]

NoFile == [written |-> FALSE, content |-> <<>>]

NoResponse == [kind |-> "none", flash |-> Null, funny_url |-> FALSE]

\* no upload saved: before the first request, and for a refused one
NoRequest ==
  [saved |-> FALSE, style |-> Null, emoji |-> FALSE, cats |-> FALSE,
   ai |-> "none", cat_every |-> 4, upload |-> [ok |-> FALSE, pages |-> <<>>]]

\* the handler between requests
AppIdle ==
  /\ pc = "idle"
  /\ req = NoRequest
  /\ raw = <<>>
  /\ t = <<>>
  /\ pcount = 0
  /\ doc = <<>>
  /\ fetches = <<>>
  /\ funny = NoFile
  /\ response = NoResponse
  /\ nreq = 0

-----------------------------------------------------------------------------
(* Function level: one call of one stage on a text *)

Init ==
  /\ text \in Texts
  /\ intensity = 0
  /\ fn = "none"
  /\ ret = <<>>
  /\ cited = <<>>
  /\ field = Null
  /\ interval = 4
  /\ environ = NoEnviron
  /\ calls = <<>>
  /\ answers = <<>>
  /\ rng = 0
  /\ AppIdle
  /\ runs = <<>>
  /\ inv = <<>>

CallApplyWordFun ==
  /\ fn = "none"
  /\ \E i \in Intensities, ws \in Streams :
       /\ fn' = "apply_word_fun"
       /\ intensity' = i
       /\ ret' = apply_word_fun(text, i, ws, 0).text
  /\ UNCHANGED <<text, cited, field, interval, environ, calls, answers, rng,
                 avars, runs, inv>>

CallSprinkleEmojis ==
  /\ fn = "none"
  /\ \E i \in Intensities, ws \in Streams :
       /\ fn' = "sprinkle_emojis"
       /\ intensity' = i
       /\ ret' = sprinkle_emojis(text, i, ws, 0).text
  /\ UNCHANGED <<text, cited, field, interval, environ, calls, answers, rng,
                 avars, runs, inv>>

CallAddFakeCitations ==
  /\ fn = "none"
  /\ \E i \in Intensities, ws \in Streams :
       \E r \in {add_fake_citations(text, i, ws, 0)} :
           /\ fn' = "add_fake_citations"
           /\ intensity' = i
           /\ ret' = r.text
           /\ cited' = r.parts
  /\ UNCHANGED <<text, field, interval, environ, calls, answers, rng, avars,
                 runs, inv>>

CallAiRewrite ==
  /\ fn = "none"
  /\ \E env \in Environs, style \in StyleKeys, resp \in Responses :
       \E r \in {ai_rewrite(text, style, env, resp, <<>>)} :
           /\ fn' = "ai_rewrite"
           /\ environ' = env
           /\ ret' = r.text
           /\ calls' = r.calls
           /\ answers' = [n \in 1..Len(r.calls) |-> Answer(resp, n)]
  /\ UNCHANGED <<text, intensity, cited, field, interval, rng, avars, runs, inv>>

\* process() reads the form field cat_every; no text has been extracted yet
ReadCatEvery ==
  /\ fn = "none"
  /\ text = <<>>
  /\ \E sent \in BOOLEAN, g \in Fields :
       LET f == IF sent THEN g ELSE Null
       IN  /\ fn' = "cat_every"
           /\ field' = f
           /\ interval' = CatEvery(f)
  /\ UNCHANGED <<text, intensity, ret, cited, environ, calls, answers, rng,
                 avars, runs, inv>>

Next ==
  \/ CallApplyWordFun
  \/ CallSprinkleEmojis
  \/ CallAddFakeCitations
  \/ CallAiRewrite
  \/ ReadCatEvery

Spec == Init /\ [][Next]_vars

-----------------------------------------------------------------------------
(* Claims about the stages *)

PatternOccurs(s) ==
  \E n \in DOMAIN FUNNY_MAP : \E i \in 1..Len(s) : MatchAt(FUNNY_MAP[n].pat, s, i)

\* C1: called with intensity 0, apply_word_fun, sprinkle_emojis and
\* add_fake_citations each return their text argument unchanged, whatever
\* the random source yields.
C1_ZeroIntensityNoOp ==
  (fn \in {"apply_word_fun", "sprinkle_emojis", "add_fake_citations"}
     /\ intensity = 0)
  => ret = text

\* C1 witness: apply_word_fun has run at intensity 0 on a text in which a
\* pattern occurs, so a draw was made and compared with 0.
C1_Witness ==
  fn = "apply_word_fun" /\ intensity = 0 /\ PatternOccurs(text)

Rewriting(env) ==
  env["AI_MODE"] = "openai" /\ env["OPENAI_API_KEY"] \notin {Null, ""}

\* C4 (as claimed): with rewriting enabled and a credential, when every
\* delegated call fails, ai_rewrite returns its input text untouched.
C4_AllFailReturnsInput ==
  (/\ fn = "ai_rewrite"
   /\ Rewriting(environ)
   /\ calls # <<>>
   /\ \A n \in DOMAIN answers : answers[n].status = "error")
  => ret = text

NoCitation == \A n \in DOMAIN cited : cited[n].cite = <<>>

\* C6: whenever add_fake_citations injects no citation, its split into
\* (chunk, punctuation, whitespace) followed by its rejoin returns the text.
C6_SplitJoinRoundTrip ==
  (fn = "add_fake_citations" /\ NoCitation) => ret = text

\* C6 witness: a positive intensity, a text that was split into several
\* chunks, a chunk that drew, and no citation.
C6_Witness ==
  /\ fn = "add_fake_citations"
  /\ intensity > 0
  /\ Len(cited) >= 2
  /\ \E n \in DOMAIN cited : strip(cited[n].chunk) # <<>>
  /\ NoCitation

\* a line followed by 0, 1 or 2 emoji of the pool, separated by spaces
WithEmoji(line) ==
  {line}
  \cup {line \o <<" ", EMOJIS[a]>> : a \in DOMAIN EMOJIS}
  \cup {line \o <<" ", EMOJIS[a], " ", EMOJIS[b]>> :
          a \in DOMAIN EMOJIS, b \in DOMAIN EMOJIS}

\* C9 (as claimed): the output of sprinkle_emojis has the lines of the input,
\* as many and with the same separators (so trailing blank lines too); a
\* blank line is unchanged and another line is followed by 0, 1 or 2 emoji.
C9_LineStructureKept ==
  fn = "sprinkle_emojis" =>
    LET old == split(text, <<"\n">>)
        new == split(ret, <<"\n">>)
    IN  /\ Len(new) = Len(old)
        /\ \A n \in DOMAIN old :
             IF strip(old[n]) = <<>>
             THEN new[n] = old[n]
             ELSE new[n] \in WithEmoji(old[n])

\* C10 (as claimed): a chunk gets at most one citation, a blank chunk none,
\* and a citation comes before the sentence-ending punctuation of its
\* sentence: the chunk it follows does not itself end with '.', '?' or '!'.
C10_CitationBeforePunct ==
  fn = "add_fake_citations" =>
    \A n \in DOMAIN cited :
         cited[n].cite # <<>> =>
           /\ \E c \in DOMAIN FAKE_CITES : cited[n].cite = FAKE_CITES[c]
           /\ strip(cited[n].chunk) # <<>>
           /\ cited[n].chunk[Len(cited[n].chunk)] \notin PUNCT

\* the submitted value is an integer that is not positive: its digits are
\* all zeros, or it has the sign "-"
NonPositive(f) ==
  /\ f # Null
  /\ IsInt(f)
  /\ \/ strip(f)[1] = "-"
     \/ \A n \in DOMAIN f : f[n] \in DIGITS => f[n] = "0"

\* C11: whatever is submitted as cat_every (zero, negative, not a number,
\* nothing), the interval the handler hands to render_pdf is an integer
\* >= 1, and it is 1 for a submitted integer that is not positive.
C11_IntervalAtLeastOne ==
  fn = "cat_every" =>
    /\ interval \in Nat
    /\ interval >= 1
    /\ NonPositive(field) => interval = 1

\* C11 witness: a negative integer with digits other than 0 has been read.
C11_Witness ==
  /\ fn = "cat_every"
  /\ NonPositive(field)
  /\ \E n \in DOMAIN field : field[n] = "2"

-----------------------------------------------------------------------------
(* extract_text, fetch_random_cat and the pieces of render_pdf *)

\* one block of text per page ("" for a page without any), joined by "\n"
extract_text(pages) ==
  join(<<"\n">>,
       [n \in DOMAIN pages |-> IF pages[n] = Null THEN <<>> ELSE pages[n]])

\* variant: no blank image when the fetch fails; nothing to place
fetch_random_cat_NoFallback(o) == [w |-> o.w, h |-> o.h]

\* the image the fetch ends with: the image received, or a blank 10 x 10
\* image when the request or the decoding raised
fetch_random_cat(o) ==
  IF o.status = "ok" THEN [w |-> o.w, h |-> o.h] ELSE [w |-> 10, h |-> 10]

\* text.split("\n\n"), blank paragraphs included
Paragraphs(s) == split(s, <<"\n", "\n">>)

\* p.replace("\t", " ") and re.sub(r"\s+", " ", p): every run of whitespace
\* becomes one space.  The positions kept are those of the other
\* characters and of the first character of each run
Collapse(s) ==
  CHOOSE r \in
       { <<>> \o [j \in 1..Len(keep) |->
                    IF s[keep[j]] \in Whitespace THEN " " ELSE s[keep[j]]]
         : keep \in {SelectSeq([i \in 1..Len(s) |-> i],
                                LAMBDA i : \/ s[i] \notin Whitespace
                                           \/ i = 1
                                           \/ s[i - 1] \notin Whitespace)} }
    : TRUE

\* the image as render_pdf scales it to max_w = 120: int(w * scale) by
\* int(h * scale) with scale = max_w / w.  The division raises for w = 0,
\* and resizing or saving raises when a side comes out as 0; render_pdf
\* swallows either and places nothing.  The images placed: none, or one
Scaled(img) ==
  IF img.w = 0 THEN <<>>
  ELSE LET new_w == (img.w * 120) \div img.w
           new_h == (img.h * 120) \div img.w
       IN  IF new_w < 1 \/ new_h < 1 THEN <<>>
           ELSE <<[w |-> new_w, h |-> new_h]>>

\* insert_cats and cat_every and pcount % cat_every == 0
CatDue(insert_cats, cat_every, n) ==
  insert_cats /\ cat_every # 0 /\ n % cat_every = 0

-----------------------------------------------------------------------------
(* build_pipeline *)

\* STYLES.get(style_key, 0.2)
Intensity(style_key) ==
  IF style_key \in DOMAIN STYLES THEN STYLES[style_key] ELSE 20

\* the one element of a singleton.  A stage's result is bound as the
\* element of a singleton so that it is computed once
Only(S) == CHOOSE x \in S : TRUE

build_pipeline(raw_text, style_key, enable_emoji, ai_mode, env, log, resp, k) ==
  LET i == Intensity(style_key)
      env1 == [env EXCEPT !["AI_MODE"] = ai_mode]
  IN  Only({
        Only({
          Only({
            Only({ [text |-> t4.text, k |-> t4.k, env |-> env1, calls |-> t2.calls]
                   : t4 \in {add_fake_citations(t3.text, i, MT42, t3.k)} })
            : t3 \in {IF enable_emoji
                      THEN sprinkle_emojis(t2.text, i, MT42, t1.k)
                      ELSE [text |-> t2.text, k |-> t1.k]} })
          : t2 \in {IF ai_mode = "openai"
                    THEN ai_rewrite(t1.text, style_key, env1, resp, log)
                    ELSE [text |-> t1.text, calls |-> log]} })
        : t1 \in {apply_word_fun(raw_text, i, MT42, k)} })

-----------------------------------------------------------------------------
(* The request handler process() *)

ALLOWED == {<<"p", "d", "f">>}

RECURSIVE LastDot(_, _)
LastDot(name, i) ==
  IF i = 0 THEN 0 ELSE IF name[i] = "." THEN i ELSE LastDot(name, i - 1)

\* "." in name and name.rsplit(".", 1)[1].lower() in ALLOWED
allowed_file(name) ==
  LET d == LastDot(name, Len(name))
      ext == SubSeq(name, d + 1, Len(name))
  IN  d # 0 /\ [n \in DOMAIN ext |-> lower(ext[n])] \in ALLOWED

\* variant: only the empty string counts as no text
NoText_EmptyOnly(s) == s = <<>>

\* not raw.strip()
NoText(s) == strip(s) = <<>>

\* the uploaded file's name; Null when no file was sent
Uploads ==
  {Null, <<>>, <<"a", ".", "p", "d", "f">>, <<"a", ".", "P", "D", "F">>,
   <<"a", ".", "t", "x", "t">>, <<"p", "d", "f">>}

\* the uploaded file: what pdfplumber makes of it.  A page is its text, or
\* Null for a page without a text layer; a file that is no PDF raises
Documents ==
  {[ok |-> FALSE, pages |-> <<>>],
   [ok |-> TRUE, pages |-> <<>>],
   [ok |-> TRUE, pages |-> <<Null, <<" ", "\t">> >>],
   [ok |-> TRUE, pages |-> << <<"f", "a", "t", " ", "c", "a", "t", ".">> >>],
   [ok |-> TRUE, pages |-> << <<"H", "e", "l", "l", "o", ".", "\n", "\n", "W", "o", "r", "l", "d", ".">> >>],
   [ok |-> TRUE, pages |-> << <<"a", "\n">>, Null, <<"b", "\n", "\n", "c">> >>],
   [ok |-> TRUE, pages |-> << <<"a", "\n", "\n", "b", "\n", "\n", "c", "\n", "\n", "d">> >>]}

StyleInputs == {Null, "spicy", "chaotic", "weird"}

CatEveryInputs ==
  {Null, <<>>, <<"x">>, <<"0">>, <<"-", "2">>, <<"1">>, <<" ", "2">>}

\* what the image source sends: nothing usable, or a bitmap of some size
ImageSource ==
  {[status |-> "error", w |-> 0, h |-> 0],
   [status |-> "ok", w |-> 400, h |-> 300],
   [status |-> "ok", w |-> 1000, h |-> 2]}

ProcessEnvirons ==
  [AI_MODE : {Null}, OPENAI_API_KEY : {Null, "", "sk-key"},
   OPENAI_MODEL : {Null}]

NoFunction ==
  /\ text = <<>>
  /\ intensity = 0
  /\ fn = "none"
  /\ ret = <<>>
  /\ cited = <<>>
  /\ field = Null
  /\ interval = 4

InitApp ==
  /\ NoFunction
  /\ environ \in ProcessEnvirons
  /\ calls = <<>>
  /\ answers = <<>>
  /\ rng = 0
  /\ AppIdle
  /\ runs = <<>>
  /\ inv = <<>>

Redirect(msg) == [kind |-> "redirect", flash |-> msg, funny_url |-> FALSE]

Page(msg, with_funny) == [kind |-> "page", flash |-> msg, funny_url |-> with_funny]

\* a request arrives: the file is checked, the form read, the file saved
Receive ==
  /\ pc = "idle"
  /\ nreq < MaxRequests
  /\ nreq' = nreq + 1
  /\ \E f \in Uploads, d \in Documents, style \in StyleInputs,
        emoji \in BOOLEAN, cats \in BOOLEAN, ai \in BOOLEAN,
        every \in CatEveryInputs :
       IF f = Null \/ f = <<>>
       THEN /\ response' = Redirect("Please choose a PDF file.")
            /\ req' = NoRequest
            /\ pc' = "done"
       ELSE IF ~allowed_file(f)
       THEN /\ response' = Redirect("Only .pdf files are allowed.")
            /\ req' = NoRequest
            /\ pc' = "done"
       ELSE /\ response' = NoResponse
            /\ req' = [saved |-> TRUE,
                       style |-> IF style = Null THEN "mild" ELSE style,
                       emoji |-> emoji,
                       cats |-> cats,
                       ai |-> IF ai THEN "openai" ELSE "none",
                       cat_every |-> CatEvery(every),
                       upload |-> d]
            /\ pc' = "extract"
  /\ UNCHANGED <<fvars, environ, calls, answers, rng, raw, t, pcount, doc,
                 fetches, funny, runs, inv>>

\* raw = extract_text(...); without text the original alone is shown
Extract ==
  /\ pc = "extract"
  /\ IF ~req.upload.ok
     THEN /\ response' = Redirect("Error while processing")
          /\ pc' = "done"
          /\ UNCHANGED <<raw, t>>
     ELSE LET r == extract_text(req.upload.pages)
          IN  /\ raw' = r
              /\ IF NoText(r)
                 THEN /\ response' = Page("No extractable text found. (Scanned PDFs need OCR.)", FALSE)
                      /\ pc' = "done"
                      /\ t' = t
                 ELSE /\ response' = response
                      /\ pc' = "word"
                      /\ t' = r
  /\ UNCHANGED <<fvars, environ, calls, answers, rng, req, pcount, doc,
                 fetches, funny, nreq, runs, inv>>

\* build_pipeline: t = apply_word_fun(t, intensity)
PipelineWordFun ==
  /\ pc = "word"
  /\ \E r \in {apply_word_fun(t, Intensity(req.style), MT42, rng)} :
         /\ r.k <= Len(MT42)
         /\ t' = r.text
         /\ rng' = r.k
  /\ pc' = "setenv"
  /\ UNCHANGED <<fvars, environ, calls, answers, req, raw, pcount, doc,
                 fetches, funny, response, nreq, runs, inv>>

\* build_pipeline: os.environ["AI_MODE"] = ai_mode
PipelineSetEnv ==
  /\ pc = "setenv"
  /\ environ' = [environ EXCEPT !["AI_MODE"] = req.ai]
  /\ pc' = "ai"
  /\ UNCHANGED <<fvars, calls, answers, rng, req, raw, t, pcount, doc,
                 fetches, funny, response, nreq, runs, inv>>

\* build_pipeline: if ai_mode == "openai": t = ai_rewrite(t, style_key)
PipelineAi ==
  /\ pc = "ai"
  /\ IF req.ai = "openai"
     THEN \E resp \in Responses :
            \E r \in {ai_rewrite(t, req.style, environ, resp, calls)} :
                /\ t' = r.text
                /\ calls' = r.calls
                /\ answers' = [n \in 1..Len(r.calls) |-> Answer(resp, n)]
     ELSE UNCHANGED <<t, calls, answers>>
  /\ pc' = "emoji"
  /\ UNCHANGED <<fvars, environ, rng, req, raw, pcount, doc, fetches, funny,
                 response, nreq, runs, inv>>

\* build_pipeline: if enable_emoji: t = sprinkle_emojis(t, intensity)
PipelineEmoji ==
  /\ pc = "emoji"
  /\ IF req.emoji
     THEN \E r \in {sprinkle_emojis(t, Intensity(req.style), MT42, rng)} :
              /\ r.k <= Len(MT42)
              /\ t' = r.text
              /\ rng' = r.k
     ELSE UNCHANGED <<t, rng>>
  /\ pc' = "cite"
  /\ UNCHANGED <<fvars, environ, calls, answers, req, raw, pcount, doc,
                 fetches, funny, response, nreq, runs, inv>>

\* build_pipeline: t = add_fake_citations(t, intensity); return t
PipelineCite ==
  /\ pc = "cite"
  /\ \E r \in {add_fake_citations(t, Intensity(req.style), MT42, rng)} :
         /\ r.k <= Len(MT42)
         /\ t' = r.text
         /\ rng' = r.k
  /\ pc' = "render"
  /\ UNCHANGED <<fvars, environ, calls, answers, req, raw, pcount, doc,
                 fetches, funny, response, nreq, runs, inv>>

\* render_pdf: the new document, its fonts and first page; pcount = 0
RenderNew ==
  /\ pc = "render"
  /\ pcount' = 0
  /\ doc' = <<>>
  /\ pc' = "para"
  /\ UNCHANGED <<fvars, environ, calls, answers, rng, req, raw, t, fetches,
                 funny, response, nreq, runs, inv>>

\* variant: the loop left after the first paragraph
AfterParagraph_StopEarly(n) == "output"

\* where render_pdf goes on after paragraph n and its image, if any
AfterParagraph(n) == IF n < Len(Paragraphs(t)) THEN "para" ELSE "output"

\* render_pdf: the next paragraph is drawn
DrawParagraph ==
  /\ pc = "para"
  /\ pcount' = pcount + 1
  /\ doc' = Append(doc, [kind |-> "text", n |-> pcount + 1,
                         text |-> Collapse(Paragraphs(t)[pcount + 1])])
  /\ pc' = IF CatDue(req.cats, req.cat_every, pcount + 1)
           THEN "cat"
           ELSE AfterParagraph(pcount + 1)
  /\ UNCHANGED <<fvars, environ, calls, answers, rng, req, raw, t, fetches,
                 funny, response, nreq, runs, inv>>

\* render_pdf: an image is fetched, scaled and drawn after the paragraph;
\* an exception on the way is swallowed
InsertCat ==
  /\ pc = "cat"
  /\ \E o \in ImageSource :
       LET img == Scaled(fetch_random_cat(o))
       IN  /\ fetches' = Append(fetches, o.status)
           /\ doc' = doc \o [j \in DOMAIN img |->
                               [kind |-> "image", n |-> pcount,
                                w |-> img[j].w, h |-> img[j].h]]
  /\ pc' = AfterParagraph(pcount)
  /\ UNCHANGED <<fvars, environ, calls, answers, rng, req, raw, t, pcount,
                 funny, response, nreq, runs, inv>>

\* render_pdf: pdf.output(out_path)
Output ==
  /\ pc = "output"
  /\ funny' = [written |-> TRUE, content |-> doc]
  /\ pc' = "respond"
  /\ UNCHANGED <<fvars, environ, calls, answers, rng, req, raw, t, pcount,
                 doc, fetches, response, nreq, runs, inv>>

\* the page that shows the original and the funny document
Respond ==
  /\ pc = "respond"
  /\ response' = Page(Null, TRUE)
  /\ pc' = "done"
  /\ UNCHANGED <<fvars, environ, calls, answers, rng, req, raw, t, pcount,
                 doc, fetches, funny, nreq, runs, inv>>

\* the handler has returned: its locals are gone, the process waits for
\* the next request with its environment and its random state as they are
Return ==
  /\ pc = "done"
  /\ pc' = "idle"
  /\ req' = NoRequest
  /\ raw' = <<>>
  /\ t' = <<>>
  /\ pcount' = 0
  /\ doc' = <<>>
  /\ fetches' = <<>>
  /\ funny' = NoFile
  /\ response' = NoResponse
  /\ calls' = <<>>
  /\ answers' = <<>>
  /\ UNCHANGED <<fvars, environ, rng, nreq, runs, inv>>

NextApp ==
  \/ Receive
  \/ Extract
  \/ PipelineWordFun
  \/ PipelineSetEnv
  \/ PipelineAi
  \/ PipelineEmoji
  \/ PipelineCite
  \/ RenderNew
  \/ DrawParagraph
  \/ InsertCat
  \/ Output
  \/ Respond
  \/ Return

SpecApp == InitApp /\ [][NextApp]_vars

-----------------------------------------------------------------------------
(* Successive invocations of build_pipeline in one process *)

\* the texts the handler gets out of Documents and hands to build_pipeline
RunTexts ==
  {extract_text(d.pages) : d \in {e \in Documents : e.ok /\ ~NoText(extract_text(e.pages))}}

InitRuns == InitApp

\* one invocation; the answers of the service matter only when it is asked
Invoke ==
  /\ Len(runs) < MaxRuns
  /\ \E raw_text \in RunTexts, style_key \in StyleKeys,
        enable_emoji \in BOOLEAN, ai_mode \in {"none", "openai"} :
       \E resp \in IF ai_mode = "openai" /\ environ["OPENAI_API_KEY"] = "sk-key"
                   THEN Responses
                   ELSE {[n \in 1..MaxCalls |-> [status |-> "error", content |-> <<>>]]} :
         \E r \in {build_pipeline(raw_text, style_key, enable_emoji, ai_mode,
                                   environ, <<>>, resp, rng)} :
             /\ r.k <= Len(MT42)
             /\ runs' = Append(runs, [raw_text |-> raw_text,
                                      style_key |-> style_key,
                                      enable_emoji |-> enable_emoji,
                                      ai_mode |-> ai_mode,
                                      out |-> r.text])
             /\ rng' = r.k
             /\ environ' = r.env
             /\ calls' = r.calls
             /\ answers' = [n \in 1..Len(r.calls) |-> Answer(resp, n)]
  /\ UNCHANGED <<fvars, avars, inv>>

NextRuns == Invoke

SpecRuns == InitRuns /\ [][NextRuns]_vars

-----------------------------------------------------------------------------
(* Concurrent invocations of build_pipeline: the handlers of a threaded     *)
(* server run in one process, with one os.environ and one random            *)
(* generator.  A step is one statement of build_pipeline, or a part of       *)
(* ai_rewrite; the steps of different invocations interleave.               *)

Threads == 1..MaxThreads

ConcTexts == {<<"f", "a", "t">>, <<"a", ".", "\n", "\n", "b">>}

\* an invocation as it is called: its arguments, and t = raw_text.  rewrite
\* tells what became of the rewriting step: "skipped" when build_pipeline
\* does not call ai_rewrite, "passthrough" when ai_rewrite returns its text
\* at once, "delegated" when it sends the paragraphs out
Invocations ==
  {[pc |-> "word", raw_text |-> x, style_key |-> "spicy", enable_emoji |-> e,
    ai_mode |-> m, t |-> x, rewrite |-> "pending"]
   : x \in ConcTexts, e \in BOOLEAN, m \in {"none", "openai"}}

InitConc ==
  /\ NoFunction
  /\ environ \in ProcessEnvirons
  /\ calls = <<>>
  /\ answers = <<>>
  /\ rng = 0
  /\ AppIdle
  /\ runs = <<>>
  /\ inv \in [Threads -> Invocations]

\* t = apply_word_fun(t, intensity)
ConcWordFun(i) ==
  /\ inv[i].pc = "word"
  /\ \E r \in {apply_word_fun(inv[i].t, Intensity(inv[i].style_key), MT42, rng)} :
         /\ r.k <= Len(MT42)
         /\ inv' = [inv EXCEPT ![i].t = r.text, ![i].pc = "setenv"]
         /\ rng' = r.k
  /\ UNCHANGED <<fvars, environ, calls, answers, avars, runs>>

\* os.environ["AI_MODE"] = ai_mode; if ai_mode == "openai": ...
ConcSetEnv(i) ==
  /\ inv[i].pc = "setenv"
  /\ environ' = [environ EXCEPT !["AI_MODE"] = inv[i].ai_mode]
  /\ inv' = IF inv[i].ai_mode = "openai"
            THEN [inv EXCEPT ![i].pc = "ai"]
            ELSE [inv EXCEPT ![i].pc = "emoji", ![i].rewrite = "skipped"]
  /\ UNCHANGED <<fvars, calls, answers, rng, avars, runs>>

\* ai_rewrite reads AI_MODE and the credential from the environment, and
\* returns its text when rewriting is off or there is no credential
ConcAiEnter(i) ==
  /\ inv[i].pc = "ai"
  /\ inv' = IF \/ getenv(environ, "AI_MODE", "none") # "openai"
               \/ environ["OPENAI_API_KEY"] \in {Null, ""}
            THEN [inv EXCEPT ![i].pc = "emoji", ![i].rewrite = "passthrough"]
            ELSE [inv EXCEPT ![i].pc = "loop"]
  /\ UNCHANGED <<fvars, environ, calls, answers, rng, avars, runs>>

\* ai_rewrite's loop over the paragraphs, and its return
ConcAiLoop(i) ==
  /\ inv[i].pc = "loop"
  /\ \E a \in Answers :
       \E r \in {RewriteFrom(Paras(inv[i].t), 1, <<>>, inv[i].style_key,
                              environ, [n \in 1..MaxCalls |-> a], calls)} :
           /\ inv' = [inv EXCEPT ![i].t = r.text, ![i].pc = "emoji",
                                 ![i].rewrite = "delegated"]
           /\ answers' = answers \o [n \in 1..(Len(r.calls) - Len(calls)) |-> a]
           /\ calls' = r.calls
  /\ UNCHANGED <<fvars, environ, rng, avars, runs>>

\* if enable_emoji: t = sprinkle_emojis(t, intensity)
ConcEmoji(i) ==
  /\ inv[i].pc = "emoji"
  /\ IF inv[i].enable_emoji
     THEN \E r \in {sprinkle_emojis(inv[i].t, Intensity(inv[i].style_key), MT42, rng)} :
              /\ r.k <= Len(MT42)
              /\ inv' = [inv EXCEPT ![i].t = r.text, ![i].pc = "cite"]
              /\ rng' = r.k
     ELSE /\ inv' = [inv EXCEPT ![i].pc = "cite"]
          /\ rng' = rng
  /\ UNCHANGED <<fvars, environ, calls, answers, avars, runs>>

\* t = add_fake_citations(t, intensity); return t
ConcCite(i) ==
  /\ inv[i].pc = "cite"
  /\ \E r \in {add_fake_citations(inv[i].t, Intensity(inv[i].style_key), MT42, rng)} :
         /\ r.k <= Len(MT42)
         /\ inv' = [inv EXCEPT ![i].t = r.text, ![i].pc = "done"]
         /\ rng' = r.k
  /\ UNCHANGED <<fvars, environ, calls, answers, avars, runs>>

NextConc ==
  \E i \in Threads :
    \/ ConcWordFun(i)
    \/ ConcSetEnv(i)
    \/ ConcAiEnter(i)
    \/ ConcAiLoop(i)
    \/ ConcEmoji(i)
    \/ ConcCite(i)

SpecConc == InitConc /\ [][NextConc]_vars

-----------------------------------------------------------------------------
(* Claims about the pipeline and the request handler *)

Images(d) == SelectSeq(d, LAMBDA x : x.kind = "image")

Drawn(d) == SelectSeq(d, LAMBDA x : x.kind = "text")

\* the image items of d come one after each of the paragraphs every,
\* 2 * every, ... <= count, right behind the paragraph, and nowhere else
AtEvery(d, every, count) ==
  /\ Len(Images(d)) = count \div every
  /\ \A j \in DOMAIN Images(d) : Images(d)[j].n = j * every
  /\ \A x \in DOMAIN d :
       d[x].kind = "image" =>
         x > 1 /\ d[x - 1].kind = "text" /\ d[x - 1].n = d[x].n

\* C2 (as claimed): render_pdf with the flag on inserts an image after
\* paragraphs N, 2N, ... <= P and nowhere else, floor(P / N) in all,
\* whatever the image source returns; with the flag off it inserts none.
C2_ImageAfterEveryNth ==
  funny.written =>
    IF req.cats
    THEN AtEvery(funny.content, req.cat_every, Len(Paragraphs(t)))
    ELSE Images(funny.content) = <<>>

\* C3 (as claimed): with the seed fixed and external rewriting off, two
\* runs of build_pipeline on the same text and configuration return the
\* same text, also when they follow each other in one process.
C3_RepeatedRunsAgree ==
  \A i \in DOMAIN runs : \A j \in DOMAIN runs :
    (/\ runs[i].ai_mode = "none"
     /\ runs[j].ai_mode = "none"
     /\ runs[i].raw_text = runs[j].raw_text
     /\ runs[i].style_key = runs[j].style_key
     /\ runs[i].enable_emoji = runs[j].enable_emoji)
    => runs[i].out = runs[j].out

\* C5: when the extracted text is empty or whitespace, the handler answers
\* with the page that reports it and shows no funny document; neither
\* build_pipeline nor render_pdf has run for the request.
C5_EmptyContentHalts ==
  (req.saved /\ req.upload.ok /\ pc # "extract" /\ strip(raw) = <<>>)
  => /\ pc = "done"
     /\ response = Page("No extractable text found. (Scanned PDFs need OCR.)", FALSE)
     /\ t = <<>>
     /\ calls = <<>>
     /\ doc = <<>>
     /\ ~funny.written

\* C5 witness: a document whose pages hold whitespace only has been
\* answered.
C5_Witness ==
  /\ pc = "done"
  /\ req.saved
  /\ req.upload.ok
  /\ raw # <<>>
  /\ strip(raw) = <<>>

AllFetchesFailed == \A n \in DOMAIN fetches : fetches[n] = "error"

\* C7: when every image fetch fails, render_pdf returns with the document
\* written, every paragraph in it, and a placeholder of the one size
\* 120 x 120 after each of the paragraphs N, 2N, ...
C7_PlaceholderOnFetchFailure ==
  (pc = "respond" /\ req.cats /\ AllFetchesFailed)
  => /\ funny.written
     /\ Len(Drawn(funny.content)) = Len(Paragraphs(t))
     /\ AtEvery(funny.content, req.cat_every, Len(Paragraphs(t)))
     /\ \A j \in DOMAIN Images(funny.content) :
          Images(funny.content)[j].w = 120 /\ Images(funny.content)[j].h = 120

\* C7 witness: render_pdf has returned after at least two fetches, all of
\* which failed.
C7_Witness ==
  /\ pc = "respond"
  /\ req.cats
  /\ Len(fetches) >= 2
  /\ AllFetchesFailed

\* C8: with rewriting disabled, or enabled without a credential, the
\* rewriting step of build_pipeline leaves t as it was and sends nothing.
C8_DisabledRewriterIsPassthrough ==
  [][(pc = "ai"
      /\ (req.ai # "openai" \/ environ["OPENAI_API_KEY"] \in {Null, ""}))
     => (t' = t /\ calls' = calls)]_vars

\* C8 witness: the step has run for a request with rewriting enabled and
\* no credential in the environment.
C8_Witness ==
  /\ pc = "emoji"
  /\ req.ai = "openai"
  /\ environ["OPENAI_API_KEY"] \in {Null, ""}

\* C12: within a render job, what is drawn is only added to: the
\* paragraphs of the text one by one in their order, an image only right
\* behind the paragraph it belongs to; the document is written once, when
\* all paragraphs have been drawn, and nothing is drawn after that.
C12_RenderForwardOnly ==
  [][pc' # "idle" =>
       /\ doc' # doc =>
            /\ pc \in {"para", "cat"}
            /\ ~funny.written
            /\ Len(doc') = Len(doc) + 1
            /\ SubSeq(doc', 1, Len(doc)) = doc
            /\ LET x == doc'[Len(doc')]
               IN  IF x.kind = "text"
                   THEN /\ pc = "para"
                        /\ x.n = Len(Drawn(doc)) + 1
                        /\ \E ps \in {Paragraphs(t)} :
                             /\ x.n <= Len(ps)
                             /\ x.text = Collapse(ps[x.n])
                   ELSE /\ pc = "cat"
                        /\ doc # <<>>
                        /\ doc[Len(doc)].kind = "text"
                        /\ doc[Len(doc)].n = x.n
       /\ funny' # funny =>
            /\ ~funny.written
            /\ funny'.written
            /\ funny'.content = doc
            /\ doc' = doc
            /\ Len(Drawn(doc)) = Len(Paragraphs(t))
  ]_vars

\* C12 witness: a document of several paragraphs with an image between two
\* of them has been written.
C12_Witness ==
  /\ funny.written
  /\ Len(Drawn(funny.content)) >= 2
  /\ \E x \in 1..(Len(funny.content) - 1) :
       funny.content[x].kind = "image" /\ funny.content[x + 1].kind = "text"

\* C13 (as claimed): whether an invocation delegates its paragraphs to the
\* external rewriter depends on its own toggle and the credential only,
\* whatever the invocations interleaved with it do: once past the rewriting
\* step, it has delegated exactly when its ai_mode is "openai" and a
\* credential is set.
C13_DelegationByOwnToggle ==
  \A i \in DOMAIN inv :
    inv[i].pc \in {"emoji", "cite", "done"} =>
      (inv[i].rewrite = "delegated"
         <=> (/\ inv[i].ai_mode = "openai"
              /\ environ["OPENAI_API_KEY"] \notin {Null, ""}))

====
